---- MODULE Spec2Model ----
(***************************************************************************)
(* Code search using embeddings (examples/Code_search_using_embeddings):   *)
(* the function extractor, the indexing cell and search_functions.         *)
(*                                                                         *)
(* A Python str is a sequence of one-character strings; a list is a        *)
(* sequence.  Python indices are 0-based, the sequences here are 1-based:  *)
(* all_lines[i] of the code is all_lines[i + 1] here.                      *)
(***************************************************************************)
EXTENDS Integers, Sequences, FiniteSets

VARIABLES
    pc,          \* position of the notebook run
    arg,         \* argument of the helper under test (helper specifications)
    ret,         \* value the helper returned or the exception it raised
    root_exists, \* whether code_root is a directory
    dir,         \* files under code_root in scan order: [rel, text]
    code_files,  \* list(code_root.glob('**/*.py'))
    fi,          \* number of files the comprehension has consumed
    acc,         \* records the comprehension has collected so far
    opened,      \* paths passed to open(), in order
    out,         \* lines printed by extract_functions_from_repo
    all_funcs,   \* the notebook's all_funcs
    error,       \* exception that ended the run
    df,          \* the DataFrame: one row per record
    embs,        \* results Series.apply has collected so far
    calls,       \* texts passed to get_embedding, in call order
    csv,         \* content written by df.to_csv
    res,         \* value returned by the last search_functions call
    nsearch      \* number of search_functions calls made

vars == <<pc, arg, ret, root_exists, dir, code_files, fi, acc, opened, out,
          all_funcs, error, df, embs, calls, csv, res, nsearch>>

pipevars == <<root_exists, dir, code_files, fi, acc, opened, out, all_funcs,
              error, df, embs, calls, csv, res, nsearch>>

(***************************************************************************)
(* Python values.                                                          *)
(***************************************************************************)
Unset == [tag |-> "unset"]          \* a name not bound yet
None == [tag |-> "None"]
Value(v) == [tag |-> "value", v |-> v]
Raise(e) == [tag |-> "raise", exc |-> e]

NEWLINE == <<"\n">>
CR == "\r"
DEF_PREFIXES == << <<"d", "e", "f", " ">>,
                   <<"a", "s", "y", "n", "c", " ", "d", "e", "f", " ">> >>

(***************************************************************************)
(* str methods.                                                            *)
(***************************************************************************)
startswith(s, prefix) ==
    /\ Len(s) >= Len(prefix)
    /\ SubSeq(s, 1, Len(prefix)) = prefix

\* 1-based position of the first c in s, 0 when s.index(c) raises ValueError
index(s, c) ==
    IF \E k \in 1..Len(s) : s[k] = c
    THEN CHOOSE k \in 1..Len(s) : s[k] = c /\ \A m \in 1..(k - 1) : s[m] # c
    ELSE 0

replace(s, old, new) == [k \in 1..Len(s) |-> IF s[k] = old THEN new ELSE s[k]]

RECURSIVE join(_, _)
join(sep, list) ==
    IF Len(list) = 0 THEN <<>>
    ELSE IF Len(list) = 1 THEN list[1]
    ELSE list[1] \o sep \o join(sep, Tail(list))

RECURSIVE split(_, _)
split(s, sep) ==
    LET k == index(s, sep) IN
    IF k = 0 THEN <<s>>
    ELSE <<SubSeq(s, 1, k - 1)>> \o split(SubSeq(s, k + 1, Len(s)), sep)

\* open(filepath, 'r').read(): text mode translates '\r\n' and '\r' to '\n'
RECURSIVE read(_)
read(text) ==
    IF Len(text) = 0 THEN <<>>
    ELSE IF text[1] = CR /\ Len(text) >= 2 /\ text[2] = NEWLINE[1]
    THEN NEWLINE \o read(SubSeq(text, 3, Len(text)))
    ELSE IF text[1] = CR THEN NEWLINE \o read(Tail(text))
    ELSE <<text[1]>> \o read(Tail(text))

(***************************************************************************)
(* get_function_name                                                       *)
(***************************************************************************)
RECURSIVE name_from(_, _)
name_from(code, p) ==
    IF p > Len(DEF_PREFIXES) THEN None
    ELSE IF startswith(code, DEF_PREFIXES[p])
    THEN IF index(code, "(") = 0 THEN Raise("ValueError")
         ELSE Value(SubSeq(code, Len(DEF_PREFIXES[p]) + 1, index(code, "(") - 1))
    ELSE name_from(code, p + 1)

get_function_name(code) == name_from(code, 1)

(***************************************************************************)
(* get_until_no_space                                                      *)
(***************************************************************************)
\* the mutation: ')' is not among the continuation characters
RECURSIVE collect_no_paren(_, _, _)
collect_no_paren(all_lines, j, r) ==
    IF j > Len(all_lines) THEN r
    ELSE IF Len(all_lines[j]) = 0 \/ all_lines[j][1] \in {" ", "\t"}
    THEN collect_no_paren(all_lines, j + 1, Append(r, all_lines[j]))
    ELSE r

get_until_no_space_no_paren(all_lines, i) ==
    join(NEWLINE, collect_no_paren(all_lines, i + 1, <<all_lines[i]>>))

RECURSIVE collect(_, _, _)
collect(all_lines, j, r) ==
    IF j > Len(all_lines) THEN r
    ELSE IF Len(all_lines[j]) = 0 \/ all_lines[j][1] \in {" ", "\t", ")"}
    THEN collect(all_lines, j + 1, Append(r, all_lines[j]))
    ELSE r

get_until_no_space(all_lines, i) ==
    join(NEWLINE, collect(all_lines, i + 1, <<all_lines[i]>>))

(***************************************************************************)
(* get_functions: the records one file yields, or the exception that ends  *)
(* the scan.  A record's function_name is what get_function_name returned. *)
(***************************************************************************)
is_def_start(l) == \E p \in 1..Len(DEF_PREFIXES) : startswith(l, DEF_PREFIXES[p])

RECURSIVE scan(_, _, _, _)
scan(all_lines, i, filepath, recs) ==
    IF i > Len(all_lines) THEN Value(recs)
    ELSE IF is_def_start(all_lines[i])
    THEN LET code == get_until_no_space(all_lines, i)
             function_name == get_function_name(code)
         IN IF function_name.tag = "raise" THEN function_name
            ELSE scan(all_lines, i + 1, filepath,
                     Append(recs, [code |-> code,
                                   function_name |-> function_name,
                                   filepath |-> filepath]))
    ELSE scan(all_lines, i + 1, filepath, recs)

file_lines(text) == split(replace(read(text), CR, NEWLINE[1]), NEWLINE[1])

get_functions(filepath, text) == scan(file_lines(text), 1, filepath, <<>>)

(***************************************************************************)
(* Paths.  A path is its sequence of components, a component the sequence  *)
(* of its dot-separated parts: openai-python/sub/b.py is                   *)
(* <<<<"openai-python">>, <<"sub">>, <<"b", "py">>>>.                      *)
(***************************************************************************)
code_root == << <<"home">>, <<"openai-python">> >>

str_of(path) == [kind |-> "str", parts |-> path]
Path(x) == x.parts

matches_py(rel) ==
    /\ Len(rel[Len(rel)]) = 2
    /\ rel[Len(rel)][2] = "py"

\* the mutation: no extension filter
glob_every_file(root, entries) ==
    [k \in 1..Len(entries) |-> root \o entries[k].rel]

RECURSIVE glob(_, _)
glob(root, entries) ==
    IF Len(entries) = 0 THEN <<>>
    ELSE IF matches_py(entries[1].rel)
    THEN <<root \o entries[1].rel>> \o glob(root, Tail(entries))
    ELSE glob(root, Tail(entries))

relative_to(path, root) ==
    IF startswith(path, root)
    THEN [kind |-> "Path", parts |-> SubSeq(path, Len(root) + 1, Len(path))]
    ELSE Raise("ValueError")

text_at(path) ==
    LET k == CHOOSE k \in 1..Len(dir) : code_root \o dir[k].rel = path
    IN dir[k].text

(***************************************************************************)
(* Bounds and inputs.                                                      *)
(***************************************************************************)
MaxLines == 2       \* lines of all the files under code_root together
MaxSearches == 2    \* search_functions calls in one run
MaxTail == 3        \* characters after the head of a get_function_name input
MaxBlockLines == 4  \* lines given to get_until_no_space

SeqsUpTo(S, n) == UNION {[1..k -> S] : k \in 0..n}

\* lines of the files: two definitions (the second ends in '\r'), an
\* indented inner definition, and a 'def ' line without parenthesis
FileLines == { <<"d", "e", "f", " ", "f", "(">>,
               <<"a", "s", "y", "n", "c", " ", "d", "e", "f", " ", "g", "(", "\r">>,
               <<" ", "d", "e", "f", " ", "h", "(">>,
               <<"d", "e", "f", " ", "g">> }
\* the paths a scan of code_root may yield, in scan order
RelPaths == << << <<"a", "py">> >>,
               << <<"sub">>, <<"b", "py">> >>,
               << <<"c", "txt">> >> >>
RECURSIVE SubSeqs(_)
SubSeqs(s) ==
    IF Len(s) = 0 THEN {<<>>}
    ELSE SubSeqs(Tail(s)) \cup {<<s[1]>> \o t : t \in SubSeqs(Tail(s))}
PathSeqs == SubSeqs(RelPaths)

\* the contents of n files that hold at most budget lines together
RECURSIVE Contents(_, _)
Contents(n, budget) ==
    IF n = 0 THEN {<<>>}
    ELSE UNION {{<<join(NEWLINE, ls)>> \o rest : rest \in Contents(n - 1, budget - Len(ls))} :
                  ls \in SeqsUpTo(FileLines, budget)}

Dirs == UNION {{[k \in 1..Len(ps) |-> [rel |-> ps[k], text |-> ts[k]]] :
                  ts \in Contents(Len(ps), MaxLines)} : ps \in PathSeqs}

\* what the embedder may return, and the query texts
EmbSet == { <<1, 0>>, <<0, 1>> }
Queries == { <<"q">> }

(***************************************************************************)
(* utils.embeddings_utils.cosine_similarity: dot(a, b) / (|a| |b|).  The   *)
(* value kept is sign(c) * c^2 * 4 for the cosine c, an integer for the    *)
(* vectors of EmbSet and an increasing function of c.                      *)
(***************************************************************************)
dot(a, b) == a[1] * b[1] + a[2] * b[2]
cosine_similarity(a, b) ==
    LET d == dot(a, b)
        sq == (d * d * 4) \div (dot(a, a) * dot(b, b))
    IN IF d < 0 THEN 0 - sq ELSE sq

(***************************************************************************)
(* extract_functions_from_repo                                             *)
(***************************************************************************)
Glob ==
    /\ pc = "start"
    /\ LET files == IF root_exists THEN glob(code_root, dir) ELSE <<>>
           num_files == Len(files)
           count == [msg |-> "Total number of .py files", n |-> num_files]
       IN /\ code_files' = files
          /\ IF num_files = 0
             THEN /\ out' = <<count, [msg |-> "Verify openai-python repo exists and code_root is set correctly."]>>
                  /\ all_funcs' = None
                  /\ pc' = "extracted"
             ELSE /\ out' = <<count>>
                  /\ all_funcs' = all_funcs
                  /\ pc' = "scanning"
    /\ UNCHANGED <<arg, ret, root_exists, dir, fi, acc, opened, error, df,
                   embs, calls, csv, res, nsearch>>

ScanFile ==
    /\ pc = "scanning"
    /\ fi < Len(code_files)
    /\ LET code_file == code_files[fi + 1]
           got == get_functions(str_of(code_file), text_at(code_file))
       IN /\ got.tag = "value"
          /\ opened' = Append(opened, code_file)
          /\ acc' = acc \o got.v
          /\ fi' = fi + 1
    /\ UNCHANGED <<pc, arg, ret, root_exists, dir, code_files, out, all_funcs,
                   error, df, embs, calls, csv, res, nsearch>>

ScanFileRaise ==
    /\ pc = "scanning"
    /\ fi < Len(code_files)
    /\ LET code_file == code_files[fi + 1]
           got == get_functions(str_of(code_file), text_at(code_file))
       IN /\ got.tag = "raise"
          /\ opened' = Append(opened, code_file)
          /\ error' = got.exc
          /\ pc' = "raised"
    /\ UNCHANGED <<arg, ret, root_exists, dir, code_files, fi, acc, out,
                   all_funcs, df, embs, calls, csv, res, nsearch>>

ReturnFuncs ==
    /\ pc = "scanning"
    /\ fi = Len(code_files)
    /\ out' = Append(out, [msg |-> "Total number of functions extracted", n |-> Len(acc)])
    /\ all_funcs' = Value(acc)
    /\ pc' = "extracted"
    /\ UNCHANGED <<arg, ret, root_exists, dir, code_files, fi, acc, opened,
                   error, df, embs, calls, csv, res, nsearch>>

(***************************************************************************)
(* The indexing cell: df = pd.DataFrame(all_funcs), the code_embedding     *)
(* column (Series.apply calls get_embedding row by row and the column is   *)
(* assigned when every call has returned), the filepath column, to_csv.    *)
(***************************************************************************)
DataFrame(records) ==
    [k \in 1..Len(records) |->
        [code |-> records[k].code,
         function_name |-> records[k].function_name,
         filepath |-> records[k].filepath,
         code_embedding |-> Unset,
         similarities |-> Unset]]

IndexBegin ==
    /\ pc = "extracted"
    /\ all_funcs.tag = "value"
    /\ Len(all_funcs.v) > 0
    /\ df' = Value(DataFrame(all_funcs.v))
    /\ embs' = <<>>
    /\ pc' = "embedding"
    /\ UNCHANGED <<arg, ret, root_exists, dir, code_files, fi, acc, opened,
                   out, all_funcs, error, calls, csv, res, nsearch>>

\* a frame built from None or from [] has no 'code' column
IndexKeyError ==
    /\ pc = "extracted"
    /\ all_funcs = None \/ all_funcs = Value(<<>>)
    /\ df' = Value(<<>>)
    /\ error' = "KeyError"
    /\ pc' = "raised"
    /\ UNCHANGED <<arg, ret, root_exists, dir, code_files, fi, acc, opened,
                   out, all_funcs, embs, calls, csv, res, nsearch>>

\* the mutation: the first row is passed to get_embedding twice
EmbedReturnFirstTwice ==
    /\ pc = "embedding"
    /\ Len(embs) < Len(df.v)
    /\ \E e \in EmbSet : embs' = Append(embs, e)
    /\ calls' = (IF Len(embs) = 0 THEN <<df.v[1].code>> ELSE <<>>)
                 \o Append(calls, df.v[Len(embs) + 1].code)
    /\ UNCHANGED <<pc, arg, ret, root_exists, dir, code_files, fi, acc, opened,
                   out, all_funcs, error, df, csv, res, nsearch>>

EmbedReturn ==
    /\ pc = "embedding"
    /\ Len(embs) < Len(df.v)
    /\ \E e \in EmbSet : embs' = Append(embs, e)
    /\ calls' = Append(calls, df.v[Len(embs) + 1].code)
    /\ UNCHANGED <<pc, arg, ret, root_exists, dir, code_files, fi, acc, opened,
                   out, all_funcs, error, df, csv, res, nsearch>>

\* the mutation: the embeddings computed before the failure are kept
EmbedRaiseKeepsPartial ==
    /\ pc = "embedding"
    /\ Len(embs) < Len(df.v)
    /\ calls' = Append(calls, df.v[Len(embs) + 1].code)
    /\ df' = Value([k \in 1..Len(df.v) |->
                      IF k <= Len(embs)
                      THEN [df.v[k] EXCEPT !.code_embedding = Value(embs[k])]
                      ELSE df.v[k]])
    /\ error' = "EmbedderError"
    /\ pc' = "raised"
    /\ UNCHANGED <<arg, ret, root_exists, dir, code_files, fi, acc, opened,
                   out, all_funcs, embs, csv, res, nsearch>>

EmbedRaise ==
    /\ pc = "embedding"
    /\ Len(embs) < Len(df.v)
    /\ calls' = Append(calls, df.v[Len(embs) + 1].code)
    /\ error' = "EmbedderError"
    /\ pc' = "raised"
    /\ UNCHANGED <<arg, ret, root_exists, dir, code_files, fi, acc, opened,
                   out, all_funcs, df, embs, csv, res, nsearch>>

csv_text(x) == [kind |-> "text", of |-> x]

to_csv(rows) ==
    [k \in 1..Len(rows) |->
        [code |-> rows[k].code,
         function_name |-> rows[k].function_name,
         filepath |-> csv_text(rows[k].filepath),
         code_embedding |-> csv_text(rows[k].code_embedding.v)]]

IndexFinish ==
    /\ pc = "embedding"
    /\ Len(embs) = Len(df.v)
    /\ LET rows == [k \in 1..Len(df.v) |->
                      [df.v[k] EXCEPT
                          !.code_embedding = Value(embs[k]),
                          !.filepath = relative_to(Path(df.v[k].filepath), code_root)]]
       IN /\ df' = Value(rows)
          /\ csv' = Value(to_csv(rows))
    /\ pc' = "indexed"
    /\ UNCHANGED <<arg, ret, root_exists, dir, code_files, fi, acc, opened,
                   out, all_funcs, error, embs, calls, res, nsearch>>

(***************************************************************************)
(* search_functions.  sort_values uses pandas' default kind, quicksort,    *)
(* which is not a stable sort: rows with equal similarities come out in    *)
(* any order.  A result row carries its index label idx.  The preview that *)
(* pprint prints for each result row is not kept.                          *)
(***************************************************************************)
with_index(rows) ==
    [k \in 1..Len(rows) |->
        [idx |-> k,
         code |-> rows[k].code,
         function_name |-> rows[k].function_name,
         filepath |-> rows[k].filepath,
         code_embedding |-> rows[k].code_embedding,
         similarities |-> rows[k].similarities]]

\* the orders of the rows S that put no row before one of greater similarities
RECURSIVE descending(_, _)
descending(rows, S) ==
    IF S = {} THEN {<<>>}
    ELSE UNION {{<<rows[k]>> \o o : o \in descending(rows, S \ {k})} :
                  k \in {m \in S : \A j \in S :
                            rows[m].similarities.v >= rows[j].similarities.v}}

RECURSIVE ascending(_, _)
ascending(rows, S) ==
    IF S = {} THEN {<<>>}
    ELSE UNION {{<<rows[k]>> \o o : o \in ascending(rows, S \ {k})} :
                  k \in {m \in S : \A j \in S :
                            rows[m].similarities.v <= rows[j].similarities.v}}

\* the mutation: ascending order
sort_values_ascending(rows) == ascending(with_index(rows), 1..Len(rows))

sort_values(rows) == descending(with_index(rows), 1..Len(rows))

\* the mutation: one row too many
head_one_more(rows, n) ==
    SubSeq(rows, 1, IF n + 1 < Len(rows) THEN n + 1 ELSE Len(rows))

head(rows, n) == SubSeq(rows, 1, IF n < Len(rows) THEN n ELSE Len(rows))

\* the mutation: the scores are written to the code_embedding column
with_similarities_in_embedding(rows, embedding) ==
    [k \in 1..Len(rows) |->
        [rows[k] EXCEPT
            !.similarities = Value(cosine_similarity(rows[k].code_embedding.v, embedding)),
            !.code_embedding = Value(<<cosine_similarity(rows[k].code_embedding.v, embedding), 0>>)]]

\* df['similarities'] = df.code_embedding.apply(...)
with_similarities(rows, embedding) ==
    [k \in 1..Len(rows) |->
        [rows[k] EXCEPT !.similarities =
            Value(cosine_similarity(rows[k].code_embedding.v, embedding))]]

SearchReturn ==
    /\ pc = "indexed"
    /\ nsearch < MaxSearches
    /\ \E code_query \in Queries, n \in 0..(Len(df.v) + 1), embedding \in EmbSet :
         LET scored == with_similarities(df.v, embedding)
         IN /\ arg' = [code_query |-> code_query, n |-> n]
            /\ calls' = Append(calls, code_query)
            /\ df' = Value(scored)
            /\ res' \in {Value(head(sorted, n)) : sorted \in sort_values(scored)}
    /\ nsearch' = nsearch + 1
    /\ UNCHANGED <<pc, ret, root_exists, dir, code_files, fi, acc, opened,
                   out, all_funcs, error, embs, csv>>

SearchRaise ==
    /\ pc = "indexed"
    /\ nsearch < MaxSearches
    /\ \E code_query \in Queries : calls' = Append(calls, code_query)
    /\ error' = "EmbedderError"
    /\ pc' = "raised"
    /\ nsearch' = nsearch + 1
    /\ UNCHANGED <<arg, ret, root_exists, dir, code_files, fi, acc, opened,
                   out, all_funcs, df, embs, csv, res>>

(***************************************************************************)
(* The notebook run.                                                       *)
(***************************************************************************)
Init ==
    /\ pc = "start"
    /\ arg = Unset
    /\ ret = Unset
    /\ root_exists \in BOOLEAN
    /\ dir \in (IF root_exists THEN Dirs ELSE {<<>>})
    /\ code_files = <<>>
    /\ fi = 0
    /\ acc = <<>>
    /\ opened = <<>>
    /\ out = <<>>
    /\ all_funcs = Unset
    /\ error = "none"
    /\ df = Unset
    /\ embs = <<>>
    /\ calls = <<>>
    /\ csv = Unset
    /\ res = Unset
    /\ nsearch = 0

Next ==
    \/ Glob
    \/ ScanFile
    \/ ScanFileRaise
    \/ ReturnFuncs
    \/ IndexBegin
    \/ IndexKeyError
    \/ EmbedReturn
    \/ EmbedRaise
    \/ IndexFinish
    \/ SearchReturn
    \/ SearchRaise

Spec == Init /\ [][Next]_vars

(***************************************************************************)
(* get_function_name alone, on heads followed by short tails.              *)
(***************************************************************************)
NameHeads == { <<>>,
               <<"d", "e", "f", " ">>,
               <<"a", "s", "y", "n", "c", " ", "d", "e", "f", " ">>,
               <<"d", "e", "f">>,
               <<" ", "d", "e", "f", " ">> }
NameChars == {"f", "(", "\n"}

Idle ==
    /\ root_exists = FALSE
    /\ dir = <<>>
    /\ code_files = <<>>
    /\ fi = 0
    /\ acc = <<>>
    /\ opened = <<>>
    /\ out = <<>>
    /\ all_funcs = Unset
    /\ error = "none"
    /\ df = Unset
    /\ embs = <<>>
    /\ calls = <<>>
    /\ csv = Unset
    /\ res = Unset
    /\ nsearch = 0

InitName ==
    /\ pc = "call_name"
    /\ arg \in {h \o t : h \in NameHeads, t \in SeqsUpTo(NameChars, MaxTail)}
    /\ ret = Unset
    /\ Idle

CallName ==
    /\ pc = "call_name"
    /\ ret' = get_function_name(arg)
    /\ pc' = "name_returned"
    /\ UNCHANGED <<arg, pipevars>>

SpecName == InitName /\ [][CallName]_vars

(***************************************************************************)
(* get_until_no_space alone, on every list of at most MaxBlockLines lines  *)
(* and every index into it.                                                *)
(***************************************************************************)
BlockLines == { <<>>,
                <<" ", "x">>,
                <<"\t", "x">>,
                <<")">>,
                <<"x">>,
                <<"d", "e", "f", " ", "f", "(">> }

InitBlock ==
    /\ pc = "call_block"
    /\ arg \in {[all_lines |-> ls, i |-> i] :
                  ls \in SeqsUpTo(BlockLines, MaxBlockLines) \ {<<>>},
                  i \in 1..MaxBlockLines}
    /\ arg.i <= Len(arg.all_lines)
    /\ ret = Unset
    /\ Idle

CallBlock ==
    /\ pc = "call_block"
    /\ ret' = Value(get_until_no_space(arg.all_lines, arg.i))
    /\ pc' = "block_returned"
    /\ UNCHANGED <<arg, pipevars>>

SpecBlock == InitBlock /\ [][CallBlock]_vars

(***************************************************************************)
(* Properties.                                                             *)
(***************************************************************************)
Min(a, b) == IF a < b THEN a ELSE b

\* a line that get_until_no_space keeps after the first
continues(l) == l = <<>> \/ Head(l) \in {" ", "\t", ")"}

\* C4: for an input that begins with 'def ' or 'async def ',
\* get_function_name returns the text between that prefix and the first '(';
\* for any other input it returns None.
C4_NameContract ==
    pc = "name_returned" =>
        IF \E p \in 1..Len(DEF_PREFIXES) : startswith(arg, DEF_PREFIXES[p])
        THEN /\ ret.tag = "value"
             /\ \E p \in 1..Len(DEF_PREFIXES), k \in 1..Len(arg) :
                   /\ startswith(arg, DEF_PREFIXES[p])
                   /\ arg[k] = "("
                   /\ \A m \in 1..(k - 1) : arg[m] # "("
                   /\ ret.v = SubSeq(arg, Len(DEF_PREFIXES[p]) + 1, k - 1)
        ELSE ret = None

\* the part of C4 that the code keeps: the contract, for inputs that hold a '('
C4_NameWithParen ==
    (pc = "name_returned" /\ \E k \in 1..Len(arg) : arg[k] = "(") => C4_NameContract

\* C5: the code of a definition at line i is line i and the longest run of
\* following lines that are empty or begin with ' ', '\t' or ')', joined
\* with '\n'; on the last line of a file it is that line alone.
C5_Block ==
    pc = "block_returned" =>
        LET all_lines == arg.all_lines
            i == arg.i
            stops == {j \in (i + 1)..Len(all_lines) : ~continues(all_lines[j])}
            last == IF stops = {} THEN Len(all_lines)
                    ELSE (CHOOSE j \in stops : \A m \in stops : j <= m) - 1
        IN /\ ret.tag = "value"
           /\ split(ret.v, "\n") = SubSeq(all_lines, i, last)
           /\ i = Len(all_lines) => ret.v = all_lines[i]

\* a definition followed by a ')' line, a line that ends the block, and an
\* indented line after it
C5_BlockWitness ==
    /\ pc = "block_returned"
    /\ arg.i = 1
    /\ arg.all_lines = << <<"d", "e", "f", " ", "f", "(">>, <<")">>, <<"x">>, <<" ", "x">> >>
    /\ ret = Value(<<"d", "e", "f", " ", "f", "(", "\n", ")">>)

\* the files of dir that the extension filter selects
is_python_file(rel) ==
    LET name == rel[Len(rel)] IN Len(name) > 1 /\ name[Len(name)] = "py"

\* the definition starts of the lines from i on, as [filepath, line]
RECURSIVE starts_of_lines(_, _, _)
starts_of_lines(lines, i, filepath) ==
    IF i > Len(lines) THEN <<>>
    ELSE (IF \E p \in 1..Len(DEF_PREFIXES) : startswith(lines[i], DEF_PREFIXES[p])
          THEN <<[filepath |-> filepath, line |-> lines[i]]>>
          ELSE <<>>)
         \o starts_of_lines(lines, i + 1, filepath)

\* the definition starts of the matching files from entry k on, in scan order
RECURSIVE starts_of_dir(_)
starts_of_dir(k) ==
    IF k > Len(dir) THEN <<>>
    ELSE (IF is_python_file(dir[k].rel)
          THEN starts_of_lines(file_lines(dir[k].text), 1, code_root \o dir[k].rel)
          ELSE <<>>)
         \o starts_of_dir(k + 1)

\* C1: with at least one matching file, extract_functions_from_repo returns
\* one record per definition start of the matching files, in order, none
\* missing and none twice, each with a non-empty code.
C1_ExtractAll ==
    (/\ pc \notin {"start", "scanning"}
     /\ root_exists
     /\ \E k \in 1..Len(dir) : is_python_file(dir[k].rel))
    => /\ all_funcs.tag = "value"
       /\ Len(all_funcs.v) = Len(starts_of_dir(1))
       /\ \A k \in 1..Len(all_funcs.v) :
             /\ Len(all_funcs.v[k].code) > 0
             /\ all_funcs.v[k].filepath = str_of(starts_of_dir(1)[k].filepath)
             /\ startswith(all_funcs.v[k].code, starts_of_dir(1)[k].line)

RECURSIVE lstrip(_)
lstrip(l) == IF l # <<>> /\ Head(l) \in {" ", "\t"} THEN lstrip(Tail(l)) ELSE l

is_inner_def(l) ==
    /\ l # <<>>
    /\ Head(l) \in {" ", "\t"}
    /\ \E p \in 1..Len(DEF_PREFIXES) : startswith(lstrip(l), DEF_PREFIXES[p])

\* C6: when the line after a definition start is an indented definition, the
\* extractor returns a record for the outer definition whose code holds the
\* inner line, and another record for the inner definition.
C6_Nested ==
    (pc = "extracted" /\ all_funcs.tag = "value") =>
        \A k \in 1..Len(dir) :
            is_python_file(dir[k].rel) =>
                LET lines == file_lines(dir[k].text)
                    filepath == str_of(code_root \o dir[k].rel)
                IN \A i \in 1..(Len(lines) - 1) :
                      (/\ \E p \in 1..Len(DEF_PREFIXES) : startswith(lines[i], DEF_PREFIXES[p])
                       /\ is_inner_def(lines[i + 1]))
                      => \E o, n \in 1..Len(all_funcs.v) :
                            /\ o # n
                            /\ all_funcs.v[o].filepath = filepath
                            /\ startswith(all_funcs.v[o].code, lines[i] \o NEWLINE \o lines[i + 1])
                            /\ all_funcs.v[n].filepath = filepath
                            /\ all_funcs.v[n].function_name = get_function_name(lstrip(lines[i + 1]))

\* C7: when code_root is missing or no file under it matches, the extractor
\* prints a count of zero and the diagnostic, opens no file and returns None,
\* which holds no record.
C7_EmptyRoot ==
    (/\ pc # "start"
     /\ ~root_exists \/ \A k \in 1..Len(dir) : ~is_python_file(dir[k].rel))
    => /\ all_funcs = None
       /\ opened = <<>>
       /\ Len(out) = 2
       /\ out[1] = [msg |-> "Total number of .py files", n |-> 0]
       /\ out[2].msg = "Verify openai-python repo exists and code_root is set correctly."
       /\ error # "ValueError"

\* the extractor has returned for a root that holds only a file that does not
\* match, with a definition in it
C7_EmptyRootWitness ==
    /\ pc = "extracted"
    /\ root_exists
    /\ Len(dir) = 1
    /\ ~is_python_file(dir[1].rel)
    /\ dir[1].text = <<"d", "e", "f", " ", "f", "(">>
    /\ all_funcs = None

\* the row of the frame a result row was taken from
row_of(r) ==
    [code |-> r.code, function_name |-> r.function_name, filepath |-> r.filepath,
     code_embedding |-> r.code_embedding, similarities |-> r.similarities]

\* C2: a search_functions call with n = k that returns, returns min(k, corpus size) rows, each a
\* row of the corpus and none twice, in non-increasing order of similarity,
\* and no row left out scores strictly higher than a row returned.
C2_TopN ==
    (pc = "indexed" /\ res.tag = "value") =>
        LET rows == df.v
            got == res.v
            taken == {got[j].idx : j \in 1..Len(got)}
        IN /\ Len(got) = Min(arg.n, Len(rows))
           /\ \A j \in 1..Len(got) :
                 /\ got[j].idx \in 1..Len(rows)
                 /\ row_of(got[j]) = rows[got[j].idx]
           /\ \A j, m \in 1..Len(got) :
                 /\ got[j].idx = got[m].idx => j = m
                 /\ j < m => got[j].similarities.v >= got[m].similarities.v
           /\ \A x \in (1..Len(rows)) \ taken : \A j \in 1..Len(got) :
                 ~(rows[x].similarities.v > got[j].similarities.v)

\* one row asked of a corpus of two, and the second row is the closer one
C2_TopNWitness ==
    /\ res.tag = "value"
    /\ Len(df.v) = 2
    /\ arg.n = 1
    /\ df.v[2].similarities.v > df.v[1].similarities.v
    /\ Len(res.v) = 1
    /\ res.v[1].idx = 2

\* C3 as claimed: rows of equal similarity come out in corpus order.
C3_StableTies ==
    (pc = "indexed" /\ res.tag = "value") =>
        \A j, m \in 1..Len(res.v) :
            (j < m /\ res.v[j].similarities.v = res.v[m].similarities.v)
            => res.v[j].idx < res.v[m].idx

\* the similarities of the corpus in non-increasing order: position j holds
\* the value that has fewer than j values above it and at least j not below
sorted_scores(rows) ==
    [j \in 1..Len(rows) |->
        CHOOSE v \in {rows[k].similarities.v : k \in 1..Len(rows)} :
            /\ Cardinality({k \in 1..Len(rows) : rows[k].similarities.v > v}) < j
            /\ Cardinality({k \in 1..Len(rows) : rows[k].similarities.v >= v}) >= j]

\* C3, amended: the similarities of the rows returned are the first
\* min(n, corpus size) of the corpus' similarities in non-increasing order,
\* whichever rows of equal similarity the sort puts first.
C3_ScoresDetermined ==
    (pc = "indexed" /\ res.tag = "value") =>
        /\ Len(res.v) = Min(arg.n, Len(df.v))
        /\ \A j \in 1..Len(res.v) :
              res.v[j].similarities.v = sorted_scores(df.v)[j]

\* two rows of equal similarity returned against the corpus order
C3_TieWitness ==
    /\ res.tag = "value"
    /\ Len(res.v) = 2
    /\ res.v[1].similarities.v = res.v[2].similarities.v
    /\ res.v[1].idx = 2
    /\ res.v[2].idx = 1

\* C8: a failure of the embedder on a record ends the indexing: no later
\* record is embedded, no row has an embedding, nothing is written and
\* nothing runs again; a failure on the query of a search leaves the frame
\* and the last result as they were.
C8_EmbedderFailure ==
    /\ [](/\ (error = "EmbedderError" /\ nsearch = 0) =>
                /\ pc = "raised"
                /\ csv = Unset
                /\ res = Unset
                /\ Len(calls) = Len(embs) + 1
                /\ Len(calls) <= Len(df.v)
                /\ \A k \in 1..Len(df.v) : df.v[k].code_embedding = Unset
          /\ error = "EmbedderError" => pc = "raised")
    /\ [][/\ error # "EmbedderError"      \* no step follows the failure
          /\ error' = "EmbedderError" =>   \* the step that fails
                /\ df' = df
                /\ csv' = csv
                /\ res' = res
                /\ embs' = embs
                /\ Len(calls') = Len(calls) + 1]_vars

\* the embedder has failed on the second of two records
C8_FailureWitness ==
    /\ error = "EmbedderError"
    /\ nsearch = 0
    /\ Len(df.v) = 2
    /\ Len(embs) = 1
    /\ Len(calls) = 2

\* the path a filepath value names, from the root of the file system
abs_parts(f) == IF f.kind = "str" THEN f.parts ELSE code_root \o f.parts

\* C9 as claimed: no step changes the code, function_name or filepath of a
\* row, and an embedding once written is not changed.
C9_Immutable ==
    [][(df.tag = "value" /\ df'.tag = "value") =>
          /\ Len(df'.v) = Len(df.v)
          /\ \A k \in 1..Len(df.v) :
                /\ df'.v[k].code = df.v[k].code
                /\ df'.v[k].function_name = df.v[k].function_name
                /\ df'.v[k].filepath = df.v[k].filepath
                /\ \/ df.v[k].code_embedding = Unset
                   \/ df'.v[k].code_embedding = df.v[k].code_embedding]_vars

\* C9, amended: no step changes the code or function_name of a row or a
\* record of all_funcs; the filepath of a row changes once, when the
\* indexing cell replaces the scanned path by the path relative to
\* code_root as it writes the embeddings; an embedding once written is not
\* changed.
C9_ImmutableExceptFilepath ==
    [][/\ all_funcs.tag = "value" => all_funcs' = all_funcs
       /\ (df.tag = "value" /\ df'.tag = "value") =>
             /\ Len(df'.v) = Len(df.v)
             /\ \A k \in 1..Len(df.v) :
                   /\ df'.v[k].code = df.v[k].code
                   /\ df'.v[k].function_name = df.v[k].function_name
                   /\ \/ df'.v[k].filepath = df.v[k].filepath
                      \/ /\ df.v[k].filepath.kind = "str"
                         /\ df'.v[k].filepath.kind = "Path"
                         /\ abs_parts(df'.v[k].filepath) = abs_parts(df.v[k].filepath)
                         /\ df.v[k].code_embedding = Unset
                         /\ df'.v[k].code_embedding # Unset
                   /\ \/ df.v[k].code_embedding = Unset
                      \/ df'.v[k].code_embedding = df.v[k].code_embedding]_vars

\* two searches have run over an indexed corpus of two rows
C9_SearchedWitness ==
    /\ pc = "indexed"
    /\ nsearch = 2
    /\ Len(df.v) = 2
    /\ \A k \in 1..2 : /\ df.v[k].filepath.kind = "Path"
                       /\ df.v[k].code_embedding # Unset
                       /\ df.v[k].similarities # Unset

\* C10: the indexing cell passes the code of each row to the embedder once,
\* one call at a time, in corpus order, the order of the scan and then of
\* the lines; the file is written after the last of these calls; a search
\* calls the embedder once, with the query, in the step that scores the rows.
C10_EmbedderCalls ==
    /\ [](/\ (df.tag = "value" /\ Len(df.v) > 0) =>
                /\ LET starts == starts_of_dir(1)
                   IN /\ Len(df.v) = Len(starts)
                      /\ \A k \in 1..Len(df.v) :
                            /\ abs_parts(df.v[k].filepath) = starts[k].filepath
                            /\ startswith(df.v[k].code, starts[k].line)
                /\ \A k \in 1..Len(calls) : k <= Len(df.v) => calls[k] = df.v[k].code
          /\ pc = "embedding" => Len(calls) = Len(embs)
          /\ csv # Unset =>
                /\ Len(embs) = Len(df.v)
                /\ Len(calls) = Len(df.v) + nsearch
                /\ \A k \in 1..Len(calls) : k > Len(df.v) => calls[k] \in Queries)
    /\ [][/\ Len(calls') <= Len(calls) + 1
          /\ csv' # csv => (Len(calls) = Len(df.v) /\ calls' = calls)
          /\ (pc = "indexed" /\ (df' # df \/ res' # res)) =>
                calls' = Append(calls, arg'.code_query)]_vars

\* two rows from two files have been indexed and searched
C10_CallsWitness ==
    /\ pc = "indexed"
    /\ nsearch = 1
    /\ Len(code_files) = 2
    /\ Len(df.v) = 2
    /\ df.v[1].filepath # df.v[2].filepath
    /\ df.v[1].code # df.v[2].code
    /\ Len(calls) = 3

====
